---- MODULE Spec2Model ----
(***************************************************************************)
(* prov-db-connector: ProvApi.create_document (materialisation of a PROV   *)
(* document through a storage adapter) and ProvApi.get_document_as_prov    *)
(* (reconstruction), provdbconnector/provapi.py.                           *)
(*                                                                         *)
(* Strings are TLA+ strings (Len, \o and SubSeq work on them), qualified   *)
(* names are records [prefix, local]; None is NoneQN for a qualified name, *)
(* "" for a string and 0 for a storage id.                                 *)
(***************************************************************************)
EXTENDS Integers, Sequences, FiniteSets, TLC

(* ---------------------------- bounds ----------------------------------- *)
MaxRecords == 3      \* records of an input document, over all its containers
MaxBundles == 2      \* bundles of an input document

(* ------------------------ qualified names ------------------------------ *)
NoneQN == [prefix |-> "", local |-> ""]

QN(p, l) == [prefix |-> p, local |-> l]

\* str(QualifiedName): "prefix:local"
Str(q) == IF q = NoneQN THEN "" ELSE q.prefix \o ":" \o q.local

RECURSIVE FirstColon(_, _)
FirstColon(s, i) ==
    IF i > Len(s) THEN 0
    ELSE IF SubSeq(s, i, i) = ":" THEN i ELSE FirstColon(s, i + 1)

\* NamespaceManager.valid_qualified_name on a string: partition at the first
\* ':'; a qualified name only if the prefix is registered, else None.
valid_qualified_name(nsm, s) ==
    LET c == FirstColon(s, 1) IN
    IF s = "" \/ c = 0 \/ c = Len(s) THEN NoneQN
    ELSE IF SubSeq(s, 1, c - 1) \in nsm
         THEN QN(SubSeq(s, 1, c - 1), SubSeq(s, c + 1, Len(s)))
         ELSE NoneQN

PROV_ENTITY == QN("prov", "Entity")
PROV_DERIVATION == QN("prov", "Derivation")
PROV_MENTION == QN("prov", "Mention")
PROV_BUNDLE == QN("prov", "Bundle")
PROV_ASSOCIATION == QN("prov", "Association")
PROV_LABEL == QN("prov", "label")
PROV_ATTR_GENERATED_ENTITY == QN("prov", "generatedEntity")
PROV_ATTR_USED_ENTITY == QN("prov", "usedEntity")
PROV_ATTR_SPECIFIC_ENTITY == QN("prov", "specificEntity")
PROV_ATTR_GENERAL_ENTITY == QN("prov", "generalEntity")
PROV_ATTR_BUNDLE == QN("prov", "bundle")

\* prov.constants.PROV_ATTRIBUTES (the part used here): the formal attributes
PROV_ATTRIBUTES ==
    {PROV_ATTR_GENERATED_ENTITY, PROV_ATTR_USED_ENTITY,
     PROV_ATTR_SPECIFIC_ENTITY, PROV_ATTR_GENERAL_ENTITY, PROV_ATTR_BUNDLE}

PROV_API_BUNDLE_IDENTIFIER_PREFIX == "prov:bundle:{}"

\* "prov:bundle:{}".format(identifier)
FormatBundleIdentifier(identifier) ==
    SubSeq(PROV_API_BUNDLE_IDENTIFIER_PREFIX, 1,
           Len(PROV_API_BUNDLE_IDENTIFIER_PREFIX) - 2) \o Str(identifier)

\* namespaces a ProvDocument of the inputs knows: prov (default) and ex
DocNamespaces == {"prov", "ex"}

(* --------------------------- input records ----------------------------- *)
\* attribute values: a QualifiedName (isQName, text = str form) or a string
QVal(q) == [isQName |-> TRUE, text |-> Str(q)]
SVal(s) == [isQName |-> FALSE, text |-> s]

Entity(id, extra) ==
    [cls |-> "element", type |-> PROV_ENTITY, identifier |-> id,
     formal |-> <<>>, extra |-> extra]

Derivation(id, gen, used, extra) ==
    [cls |-> "relation", type |-> PROV_DERIVATION, identifier |-> id,
     formal |-> << <<PROV_ATTR_GENERATED_ENTITY, gen>>,
                   <<PROV_ATTR_USED_ENTITY, used>> >>,
     extra |-> extra]

Mention(id, specific, general, bundle, extra) ==
    [cls |-> "relation", type |-> PROV_MENTION, identifier |-> id,
     formal |-> << <<PROV_ATTR_SPECIFIC_ENTITY, specific>>,
                   <<PROV_ATTR_GENERAL_ENTITY, general>>,
                   <<PROV_ATTR_BUNDLE, bundle>> >>,
     extra |-> extra]

E1 == QN("ex", "e1")
BundleName(i) == QN("ex", "b" \o ToString(i))

\* The records the input documents are built from, in insertion order:
\* a derivation with both ends given, a mention-link to the first bundle, an
\* entity, a mention-link with no general entity to the second bundle, an
\* identified derivation with no end given and an extra attribute, an entity
\* with two values of one attribute key.
Catalogue ==
    << Derivation(NoneQN, E1, E1, <<>>),
       Mention(NoneQN, E1, E1, BundleName(1), <<>>),
       Entity(E1, <<>>),
       Mention(NoneQN, E1, NoneQN, BundleName(2), <<>>),
       Derivation(QN("ex", "d1"), NoneQN, NoneQN,
                  << <<QN("ex", "note"), SVal("belongsToBundle")>> >>),
       Entity(QN("ex", "e2"),
              << <<QN("ex", "tag"), SVal("a")>>, <<QN("ex", "tag"), SVal("b")>> >>) >>

RECURSIVE SubsetsUpTo(_, _)
SubsetsUpTo(S, k) ==
    IF k = 0 THEN {{}}
    ELSE LET prev == SubsetsUpTo(S, k - 1)
         IN prev \cup { s \cup {x} : s \in prev, x \in S }

RECURSIVE Pick(_, _, _)
\* the records of the catalogue chosen for container c, in catalogue order
Pick(slots, c, from) ==
    IF from > Len(Catalogue) THEN <<>>
    ELSE IF <<c, from>> \in slots
         THEN <<Catalogue[from]>> \o Pick(slots, c, from + 1)
         ELSE Pick(slots, c, from + 1)

\* a document of n bundles named ex:b1..ex:bn; container 0 is the document
DocumentOf(n, slots) ==
    [records |-> Pick(slots, 0, 1),
     bundles |-> [i \in 1..n |-> [identifier |-> BundleName(i),
                                  records |-> Pick(slots, i, 1)]]]

Documents ==
    UNION { { DocumentOf(n, slots) :
                slots \in SubsetsUpTo((0..n) \X (1..Len(Catalogue)), MaxRecords) } :
            n \in 0..MaxBundles }

(* ------------------- ProvRecord.attributes, dict() --------------------- *)
RECURSIVE FormalPairs(_)
\* formal attributes that are set (prov drops None values)
FormalPairs(formal) ==
    IF formal = <<>> THEN <<>>
    ELSE IF Head(formal)[2] = NoneQN THEN FormalPairs(Tail(formal))
         ELSE << <<Head(formal)[1], QVal(Head(formal)[2])>> >> \o FormalPairs(Tail(formal))

\* ProvRecord.attributes: the list of (key, value) pairs, formal ones included
RecordAttributes(rec) == FormalPairs(rec.formal) \o rec.extra

HasKey(d, k) == \E i \in 1..Len(d) : d[i][1] = k

RECURSIVE DictOf(_, _)
\* dict(pairs): a later pair of the same key replaces the value in place
DictOf(pairs, acc) ==
    IF pairs = <<>> THEN acc
    ELSE LET k == Head(pairs)[1]
             v == Head(pairs)[2]
         IN DictOf(Tail(pairs),
                   IF HasKey(acc, k)
                   THEN [i \in 1..Len(acc) |-> IF acc[i][1] = k THEN <<k, v>> ELSE acc[i]]
                   ELSE Append(acc, <<k, v>>))

\* dict.get(key): the value text, "" for None
DictGet(d, k) ==
    IF HasKey(d, k) THEN (d[CHOOSE i \in 1..Len(d) : d[i][1] = k])[2] ELSE ""

(* ------------ get_metadata_and_attributes_for_record ------------------ *)
\* serializer.encode_json_representation: the type tag of a value, "" (none)
\* for a plain string
encode_json_representation(value) ==
    IF value.isQName THEN "prov:QUALIFIED_NAME" ELSE ""

\* the namespace prefix an attribute value contributes, "" when none
ValueNamespace(nsm, value) == valid_qualified_name(nsm, value.text).prefix

\* lines 358-360: a record without identifier gets its type as identifier
DefaultIdentifier(identifier, prov_type) ==
    IF identifier = NoneQN THEN prov_type ELSE identifier

get_metadata_and_attributes_for_record(rec, nsm) ==
    LET prov_type == IF rec.type = NoneQN
                     THEN valid_qualified_name(nsm, "prov:Unknown")
                     ELSE rec.type
        prov_identifier == DefaultIdentifier(rec.identifier, prov_type)
        attributes == DictOf(RecordAttributes(rec), <<>>)
        used_namespaces ==
            ({prov_type.prefix, prov_identifier.prefix}
             \cup { attributes[i][1].prefix : i \in 1..Len(attributes) }
             \cup { ValueNamespace(nsm, attributes[i][2]) : i \in 1..Len(attributes) })
            \ {""}
        types_dict ==
            { <<Str(attributes[i][1]), encode_json_representation(attributes[i][2])>> :
                i \in { j \in 1..Len(attributes) :
                          /\ attributes[j][1] \notin PROV_ATTRIBUTES
                          /\ encode_json_representation(attributes[j][2]) # "" } }
    IN [metadata |-> [prov_type |-> prov_type, identifier |-> prov_identifier,
                      namespaces |-> used_namespaces, type_map |-> types_dict],
        attributes |-> attributes]

NoMetadata ==
    [prov_type |-> NoneQN, identifier |-> NoneQN, namespaces |-> {}, type_map |-> {}]

(* --------------------------- the program state ------------------------- *)
VARIABLES
    content_ok,     \* form_string can convert the content to a ProvDocument
    doc,            \* prov_document, the input of create_document
    pc,             \* position of create_document
    bi,             \* index of the bundle a loop over prov_document.bundles is at
    ri,             \* index of the record a loop over get_records(...) is at
    cur,            \* container _create_bundle works on: 0 document, i bundle i
    bundle_id,      \* the bundle_id parameter of _create_bundle
    frame,          \* the activation of _create_relation, NoFrame when none
    doc_id,         \* doc_id of create_document, 0 before save_document
    bundle_id_map,  \* bundle identifier -> storage id
    calls,          \* the adapter calls issued so far, in order
    next_id,        \* the adapter's id counter
    uuid,           \* the uuid4 source of _create_unknown_node
    result,         \* the value create_document returned, 0 = none
    error           \* the exception create_document raised, "" = none

cvars == <<content_ok, doc, pc, bi, ri, cur, bundle_id, frame, doc_id,
           bundle_id_map, calls, next_id, uuid, result, error>>

NoFrame ==
    [active |-> FALSE, rel |-> Entity(NoneQN, <<>>), from_bundle_id |-> 0,
     to_bundle_id |-> 0, from_qualified_name |-> NoneQN,
     to_qualified_name |-> NoneQN, src |-> <<0, 0>>]

\* exceptions of the adapter (db_adapters/__init__.py)
AdapterErrors == {"DatabaseException", "CreateRecordException"}

\* positions of the records of a class, in insertion order: get_records(cls)
get_records(recs, cls) ==
    SelectSeq([i \in 1..Len(recs) |-> i], LAMBDA i : recs[i].cls = cls)

Container(c) == IF c = 0 THEN doc.records ELSE doc.bundles[c].records

\* one adapter call; out is "ok" or the exception the adapter raised
AdapterCall(op, container, from_id, to_container, to_id, ma, ret, out, src, role) ==
    [op |-> op, container |-> container, from_identifier |-> from_id,
     to_container |-> to_container, to_identifier |-> to_id,
     metadata |-> ma.metadata, attributes |-> ma.attributes,
     ret |-> ret, ok |-> out = "ok", raised |-> IF out = "ok" THEN "" ELSE out,
     src |-> src, role |-> role]

NoMA == [metadata |-> NoMetadata, attributes |-> <<>>]

\* the state of get_document_as_prov
VARIABLES
    rpc,            \* position of get_document_as_prov
    rci,            \* container being parsed: 0 the document, i raw bundle i
    rri,            \* index of the raw record being parsed
    prov_document,  \* the ProvDocument being rebuilt
    parsed,         \* locals of _parse_record after line 217
    rerror          \* the exception get_document_as_prov raised, "" = none

rvars == <<rpc, rci, rri, prov_document, parsed, rerror>>

NoParsed == [prov_type |-> NoneQN, prov_id |-> "", registered |-> {}]

EmptyProvDocument == [namespaces |-> {"prov"}, records |-> <<>>, bundles |-> <<>>]

(* ----------------------------- create_document ------------------------ *)
Init ==
    /\ \/ content_ok = TRUE /\ doc \in Documents
       \/ content_ok = FALSE /\ doc = DocumentOf(0, {})
    /\ pc = "form_string"
    /\ bi = 1 /\ ri = 1 /\ cur = 0 /\ bundle_id = 0
    /\ frame = NoFrame
    /\ doc_id = 0
    /\ bundle_id_map = <<>>
    /\ calls = <<>>
    /\ next_id = 1
    /\ uuid = 1
    /\ result = 0
    /\ error = ""
    /\ rpc = "idle" /\ rci = 0 /\ rri = 1
    /\ prov_document = EmptyProvDocument
    /\ parsed = NoParsed
    /\ rerror = ""

\* what the adapter may answer to a call
Outcomes == {"ok"} \cup AdapterErrors

\* mutation: the exception is swallowed and create_document goes on
PcAfterRaiseSwallowed(p) == p

\* an exception raised inside create_document leaves it: nothing catches it
PcAfterRaise(p) == "failed"

\* the exception create_document raises when the adapter raised e
Surface(e) == e

Raise(e) == pc' = PcAfterRaise(pc) /\ error' = Surface(e)

\* mutation: no relation is taken for a mention-link
IsMentionNever(rel) == FALSE

\* relation.get_type() is PROV_MENTION
IsMention(rel) == rel.type = PROV_MENTION

\* lines 134-137: form_string; a ParseException becomes InvalidArgumentType
FormString ==
    /\ pc = "form_string" /\ content_ok
    /\ pc' = "save_document"
    /\ UNCHANGED rvars
    /\ UNCHANGED <<content_ok, doc, bi, ri, cur, bundle_id, frame, doc_id,
                   bundle_id_map, calls, next_id, uuid, result, error>>

ParseError ==
    /\ pc = "form_string" /\ ~content_ok
    /\ pc' = "failed" /\ error' = "InvalidArgumentTypeException"
    /\ UNCHANGED rvars
    /\ UNCHANGED <<content_ok, doc, bi, ri, cur, bundle_id, frame, doc_id,
                   bundle_id_map, calls, next_id, uuid, result>>

\* line 141 and the entry of _create_bundle(doc_id, prov_document), line 143
SaveDocument ==
    /\ pc = "save_document"
    /\ \E out \in Outcomes :
        /\ calls' = Append(calls,
              AdapterCall("save_document", 0, NoneQN, 0, NoneQN, NoMA,
                          IF out = "ok" THEN next_id ELSE 0, out,
                          <<0, 0>>, "document"))
        /\ IF out = "ok"
           THEN /\ doc_id' = next_id /\ next_id' = next_id + 1
                /\ pc' = "nodes" /\ cur' = 0 /\ bundle_id' = next_id /\ ri' = 1
                /\ UNCHANGED error
           ELSE /\ Raise(out)
                /\ UNCHANGED <<doc_id, next_id, cur, bundle_id, ri>>
    /\ UNCHANGED rvars
    /\ UNCHANGED <<content_ok, doc, bi, frame, bundle_id_map, uuid, result>>

\* _create_bundle, lines 243-245: one element of get_records(ProvElement)
SaveElement ==
    /\ pc = "nodes"
    /\ LET elements == get_records(Container(cur), "element") IN
        /\ ri <= Len(elements)
        /\ \E out \in Outcomes :
            /\ calls' = Append(calls,
                  AdapterCall("save_record", bundle_id, NoneQN, 0, NoneQN,
                      get_metadata_and_attributes_for_record(
                          Container(cur)[elements[ri]], DocNamespaces),
                      IF out = "ok" THEN next_id ELSE 0, out,
                      <<cur, elements[ri]>>, "record"))
            /\ IF out = "ok"
               THEN ri' = ri + 1 /\ next_id' = next_id + 1 /\ UNCHANGED <<pc, error>>
               ELSE Raise(out) /\ UNCHANGED <<ri, next_id>>
    /\ UNCHANGED rvars
    /\ UNCHANGED <<content_ok, doc, bi, cur, bundle_id, frame, doc_id,
                   bundle_id_map, uuid, result>>

\* the loop of lines 243-245 ends, the loop of line 248 begins
NodesDone ==
    /\ pc = "nodes"
    /\ ri > Len(get_records(Container(cur), "element"))
    /\ pc' = "relations" /\ ri' = 1
    /\ UNCHANGED rvars
    /\ UNCHANGED <<content_ok, doc, bi, cur, bundle_id, frame, doc_id,
                   bundle_id_map, calls, next_id, uuid, result, error>>

\* lines 250-251: pass 1 skips the mention-links
SkipMention ==
    /\ pc = "relations" /\ ~frame.active
    /\ LET relations == get_records(Container(cur), "relation") IN
        /\ ri <= Len(relations)
        /\ IsMention(Container(cur)[relations[ri]])
    /\ ri' = ri + 1
    /\ UNCHANGED rvars
    /\ UNCHANGED <<content_ok, doc, pc, bi, cur, bundle_id, frame, doc_id,
                   bundle_id_map, calls, next_id, uuid, result, error>>

\* _create_relation, lines 265-267: the two endpoints of the relation
Activation(rel, from_bundle_id, to_bundle_id, src) ==
    [active |-> TRUE, rel |-> rel, from_bundle_id |-> from_bundle_id,
     to_bundle_id |-> to_bundle_id,
     from_qualified_name |-> rel.formal[1][2],
     to_qualified_name |-> rel.formal[2][2], src |-> src]

\* line 253: _create_relation(bundle_id, bundle_id, relation)
EnterRelation ==
    /\ pc = "relations" /\ ~frame.active
    /\ LET relations == get_records(Container(cur), "relation") IN
        /\ ri <= Len(relations)
        /\ ~IsMention(Container(cur)[relations[ri]])
        /\ frame' = Activation(Container(cur)[relations[ri]], bundle_id, bundle_id,
                               <<cur, relations[ri]>>)
    /\ UNCHANGED rvars
    /\ UNCHANGED <<content_ok, doc, pc, bi, ri, cur, bundle_id, doc_id,
                   bundle_id_map, calls, next_id, uuid, result, error>>

\* _create_bundle returns: to the bundle loop of line 146 for the document,
\* to _create_bundle_association (line 156) for a bundle
RelationsDone ==
    /\ pc = "relations" /\ ~frame.active
    /\ ri > Len(get_records(Container(cur), "relation"))
    /\ IF cur = 0
       THEN pc' = "bundles" /\ bi' = 1 /\ ri' = 1
       ELSE pc' = "association" /\ ri' = 1 /\ UNCHANGED bi
    /\ UNCHANGED rvars
    /\ UNCHANGED <<content_ok, doc, cur, bundle_id, frame, doc_id,
                   bundle_id_map, calls, next_id, uuid, result, error>>

\* _create_unknown_node: ProvRecord(bundle=ProvDocument(), identifier=...)
UnknownRecord(uid) ==
    [cls |-> "record", type |-> NoneQN,
     identifier |-> valid_qualified_name({"prov"}, "prov:Unknown-" \o ToString(uid)),
     formal |-> <<>>, extra |-> <<>>]

\* lines 270-274 with _create_unknown_node: the first absent endpoint
CreateUnknownNode ==
    /\ pc \in {"relations", "links"} /\ frame.active
    /\ frame.from_qualified_name = NoneQN \/ frame.to_qualified_name = NoneQN
    /\ LET from == frame.from_qualified_name = NoneQN
           record == UnknownRecord(uuid)
       IN \E out \in Outcomes :
            /\ calls' = Append(calls,
                  AdapterCall("save_record",
                      IF from THEN frame.from_bundle_id ELSE frame.to_bundle_id,
                      NoneQN, 0, NoneQN,
                      get_metadata_and_attributes_for_record(record, {"prov"}),
                      IF out = "ok" THEN next_id ELSE 0, out,
                      frame.src, IF from THEN "unknown_from" ELSE "unknown_to"))
            /\ IF out = "ok"
               THEN /\ frame' = IF from
                        THEN [frame EXCEPT !.from_qualified_name = record.identifier]
                        ELSE [frame EXCEPT !.to_qualified_name = record.identifier]
                    /\ next_id' = next_id + 1
                    /\ UNCHANGED <<pc, error>>
               ELSE Raise(out) /\ UNCHANGED <<frame, next_id>>
    /\ uuid' = uuid + 1
    /\ UNCHANGED rvars
    /\ UNCHANGED <<content_ok, doc, bi, ri, cur, bundle_id, doc_id,
                   bundle_id_map, result>>

\* lines 277-279, and the loop that called _create_relation goes on
SaveRelation ==
    /\ pc \in {"relations", "links"} /\ frame.active
    /\ frame.from_qualified_name # NoneQN /\ frame.to_qualified_name # NoneQN
    /\ \E out \in Outcomes :
        /\ calls' = Append(calls,
              AdapterCall("save_relation", frame.from_bundle_id,
                  frame.from_qualified_name, frame.to_bundle_id,
                  frame.to_qualified_name,
                  get_metadata_and_attributes_for_record(frame.rel, DocNamespaces),
                  IF out = "ok" THEN next_id ELSE 0, out,
                  frame.src, "relation"))
        /\ IF out = "ok"
           THEN /\ frame' = NoFrame /\ ri' = ri + 1 /\ next_id' = next_id + 1
                /\ UNCHANGED <<pc, error>>
           ELSE Raise(out) /\ UNCHANGED <<frame, ri, next_id>>
    /\ UNCHANGED rvars
    /\ UNCHANGED <<content_ok, doc, bi, cur, bundle_id, doc_id,
                   bundle_id_map, uuid, result>>

\* lines 147-148: bundle.valid_qualified_name("prov:bundle:{}".format(...))
custom_bundle_identifier(bundle) ==
    valid_qualified_name(DocNamespaces, FormatBundleIdentifier(bundle.identifier))

\* lines 149-150: the ProvBundleRecord of a bundle
ProvBundleRecord(bundle) ==
    [cls |-> "record", type |-> PROV_BUNDLE,
     identifier |-> custom_bundle_identifier(bundle), formal |-> <<>>,
     extra |-> << <<QN("prov", "bundle_name"), QVal(bundle.identifier)>> >>]

\* lines 146-155: save_bundle, bundle_id_map.update, entry of _create_bundle
SaveBundle ==
    /\ pc = "bundles" /\ bi <= Len(doc.bundles)
    /\ LET bundle == doc.bundles[bi] IN
       \E out \in Outcomes :
        /\ calls' = Append(calls,
              AdapterCall("save_bundle", doc_id, NoneQN, 0, NoneQN,
                  get_metadata_and_attributes_for_record(
                      ProvBundleRecord(bundle), DocNamespaces),
                  IF out = "ok" THEN next_id ELSE 0, out,
                  <<bi, 0>>, "bundle"))
        /\ IF out = "ok"
           THEN /\ bundle_id_map' =
                      [k \in DOMAIN bundle_id_map \cup {bundle.identifier} |->
                          IF k = bundle.identifier THEN next_id ELSE bundle_id_map[k]]
                /\ bundle_id' = next_id /\ next_id' = next_id + 1
                /\ pc' = "nodes" /\ cur' = bi /\ ri' = 1
                /\ UNCHANGED error
           ELSE Raise(out) /\ UNCHANGED <<bundle_id_map, bundle_id, next_id, cur, ri>>
    /\ UNCHANGED rvars
    /\ UNCHANGED <<content_ok, doc, bi, frame, doc_id, uuid, result>>

\* the loop of line 146 ends, the loop of line 159 begins
BundlesDone ==
    /\ pc = "bundles" /\ bi > Len(doc.bundles)
    /\ pc' = "links" /\ bi' = 1 /\ ri' = 1
    /\ UNCHANGED rvars
    /\ UNCHANGED <<content_ok, doc, cur, bundle_id, frame, doc_id,
                   bundle_id_map, calls, next_id, uuid, result, error>>

\* lines 291-292: ProvAssociation(identifier=None, {PROV_LABEL: "belongsToBundle"})
belong_relation ==
    [cls |-> "relation", type |-> PROV_ASSOCIATION, identifier |-> NoneQN,
     formal |-> <<>>, extra |-> << <<PROV_LABEL, SVal("belongsToBundle")>> >>]

\* _create_bundle_association, lines 296-300: one element of the bundle
SaveMembership ==
    /\ pc = "association"
    /\ LET elements == get_records(Container(cur), "element") IN
        /\ ri <= Len(elements)
        /\ \E out \in Outcomes :
            /\ calls' = Append(calls,
                  AdapterCall("save_relation", bundle_id,
                      get_metadata_and_attributes_for_record(
                          Container(cur)[elements[ri]], DocNamespaces).metadata.identifier,
                      doc_id, custom_bundle_identifier(doc.bundles[cur]),
                      get_metadata_and_attributes_for_record(belong_relation, DocNamespaces),
                      IF out = "ok" THEN next_id ELSE 0, out,
                      <<cur, elements[ri]>>, "membership"))
            /\ IF out = "ok"
               THEN ri' = ri + 1 /\ next_id' = next_id + 1 /\ UNCHANGED <<pc, error>>
               ELSE Raise(out) /\ UNCHANGED <<ri, next_id>>
    /\ UNCHANGED rvars
    /\ UNCHANGED <<content_ok, doc, bi, cur, bundle_id, frame, doc_id,
                   bundle_id_map, uuid, result>>

\* _create_bundle_association returns, next bundle of the loop of line 146
AssociationDone ==
    /\ pc = "association"
    /\ ri > Len(get_records(Container(cur), "element"))
    /\ pc' = "bundles" /\ bi' = bi + 1
    /\ UNCHANGED rvars
    /\ UNCHANGED <<content_ok, doc, ri, cur, bundle_id, frame, doc_id,
                   bundle_id_map, calls, next_id, uuid, result, error>>

\* lines 328-329: pass 2 skips what is not a mention-link
SkipNonMention ==
    /\ pc = "links" /\ ~frame.active /\ bi <= Len(doc.bundles)
    /\ LET relations == get_records(Container(bi), "relation") IN
        /\ ri <= Len(relations)
        /\ ~IsMention(Container(bi)[relations[ri]])
    /\ ri' = ri + 1
    /\ UNCHANGED rvars
    /\ UNCHANGED <<content_ok, doc, pc, bi, cur, bundle_id, frame, doc_id,
                   bundle_id_map, calls, next_id, uuid, result, error>>

\* lines 325, 331-334: both bundle ids come from bundle_id_map
EnterLink ==
    /\ pc = "links" /\ ~frame.active /\ bi <= Len(doc.bundles)
    /\ LET relations == get_records(Container(bi), "relation") IN
        /\ ri <= Len(relations)
        /\ LET mention == Container(bi)[relations[ri]]
               to_bundle == mention.formal[3][2]
           IN /\ IsMention(mention)
              /\ to_bundle \in DOMAIN bundle_id_map
              /\ frame' = Activation(mention,
                                     bundle_id_map[doc.bundles[bi].identifier],
                                     bundle_id_map[to_bundle], <<bi, relations[ri]>>)
    /\ UNCHANGED rvars
    /\ UNCHANGED <<content_ok, doc, pc, bi, ri, cur, bundle_id, doc_id,
                   bundle_id_map, calls, next_id, uuid, result, error>>

\* line 332: bundle_id_map[to_bundle] of a bundle the document does not have
LinkKeyError ==
    /\ pc = "links" /\ ~frame.active /\ bi <= Len(doc.bundles)
    /\ LET relations == get_records(Container(bi), "relation") IN
        /\ ri <= Len(relations)
        /\ LET mention == Container(bi)[relations[ri]] IN
              /\ IsMention(mention)
              /\ mention.formal[3][2] \notin DOMAIN bundle_id_map
    /\ pc' = "failed" /\ error' = "KeyError"
    /\ UNCHANGED rvars
    /\ UNCHANGED <<content_ok, doc, bi, ri, cur, bundle_id, frame, doc_id,
                   bundle_id_map, calls, next_id, uuid, result>>

\* _create_bundle_links returns, next bundle of the loop of line 159
LinksNextBundle ==
    /\ pc = "links" /\ ~frame.active /\ bi <= Len(doc.bundles)
    /\ ri > Len(get_records(Container(bi), "relation"))
    /\ bi' = bi + 1 /\ ri' = 1
    /\ UNCHANGED rvars
    /\ UNCHANGED <<content_ok, doc, pc, cur, bundle_id, frame, doc_id,
                   bundle_id_map, calls, next_id, uuid, result, error>>

\* line 162
Return ==
    /\ pc = "links" /\ bi > Len(doc.bundles)
    /\ pc' = "done" /\ result' = doc_id
    /\ UNCHANGED rvars
    /\ UNCHANGED <<content_ok, doc, bi, ri, cur, bundle_id, frame, doc_id,
                   bundle_id_map, calls, next_id, uuid, error>>

(* ------------------- the storage adapter's get_document ---------------- *)
\* the adapter keeps string-keyed data: qualified names as "prefix:local"
StoredMetadata(m) ==
    [prov_type |-> Str(m.prov_type), identifier |-> Str(m.identifier),
     namespaces |-> m.namespaces, type_map |-> m.type_map]

StoredAttributes(a) == [i \in 1..Len(a) |-> <<Str(a[i][1]), a[i][2].text>>]

\* DbRecord / DbRelation of one successful save; src and role tell which
\* record of the input it was saved for
DbRecord(c) ==
    [metadata |-> StoredMetadata(c.metadata),
     attributes |-> StoredAttributes(c.attributes), src |-> c.src, role |-> c.role]

Saved(cs) == SelectSeq(cs, LAMBDA c : c.ok)

\* the records and relations saved in a container (a relation belongs to the
\* container it starts in), in the order they were saved
RecordsIn(cs, id) ==
    LET sel == SelectSeq(Saved(cs),
                   LAMBDA c : c.op \in {"save_record", "save_relation"} /\ c.container = id)
    IN [i \in 1..Len(sel) |-> DbRecord(sel[i])]

\* adapter.get_document(document_id)
get_document(cs, document_id) ==
    LET bs == SelectSeq(Saved(cs),
                  LAMBDA c : c.op = "save_bundle" /\ c.container = document_id)
    IN [document |-> [records |-> RecordsIn(cs, document_id)],
        bundles |-> [i \in 1..Len(bs) |->
                        [bundle_record |-> DbRecord(bs[i]),
                         records |-> RecordsIn(cs, bs[i].ret)]]]

(* ------------------------- get_document_as_prov ------------------------ *)
raw_doc == get_document(calls, result)

RawRecords(c) ==
    IF c = 0 THEN raw_doc.document.records ELSE raw_doc.bundles[c].records

\* the namespaces valid_qualified_name of the target bundle resolves against:
\* its own and, for a bundle, those of the document
Registered(pd, c) ==
    pd.namespaces \cup (IF c = 0 THEN {} ELSE pd.bundles[c].namespaces)

\* lines 200-205: the record is of type prov:Unknown
IsUnknownType(pd, c, raw) ==
    valid_qualified_name(Registered(pd, c), raw.metadata.prov_type)
        = valid_qualified_name(Registered(pd, c), "prov:Unknown")

\* mutation: the label is not looked at
IsMembershipEdgeNever(raw) == FALSE

\* lines 208-210: the record is labelled as a bundle-membership edge
IsMembershipEdge(raw) ==
    LET prov_label == DictGet(raw.attributes, Str(PROV_LABEL))
    IN prov_label # "" /\ prov_label = "belongsToBundle"

\* lines 173, 176: adapter.get_document, a new ProvDocument
GetDocument ==
    /\ pc = "done" /\ rpc = "idle"
    /\ rpc' = "records" /\ rci' = 0 /\ rri' = 1
    /\ prov_document' = EmptyProvDocument
    /\ UNCHANGED <<parsed, rerror>>
    /\ UNCHANGED cvars

\* _parse_record, lines 204-205
ParseSkipUnknown ==
    /\ rpc = "records" /\ rri <= Len(RawRecords(rci))
    /\ IsUnknownType(prov_document, rci, RawRecords(rci)[rri])
    /\ rri' = rri + 1
    /\ UNCHANGED <<rpc, rci, prov_document, parsed, rerror>>
    /\ UNCHANGED cvars

\* _parse_record, lines 208-210
ParseSkipMembership ==
    /\ rpc = "records" /\ rri <= Len(RawRecords(rci))
    /\ ~IsUnknownType(prov_document, rci, RawRecords(rci)[rri])
    /\ IsMembershipEdge(RawRecords(rci)[rri])
    /\ rri' = rri + 1
    /\ UNCHANGED <<rpc, rci, prov_document, parsed, rerror>>
    /\ UNCHANGED cvars

\* mutation: the identifier is always kept
IdentifierKept(prov_id, prov_id_qualified, prov_type) == prov_id

\* lines 215-217: the identifier is set only if it is not the prov type
IdentifierOrNone(prov_id, prov_id_qualified, prov_type) ==
    IF prov_id_qualified = prov_type THEN "" ELSE prov_id

\* _parse_record, lines 200-217: type and identifier are resolved against the
\* namespaces registered so far; an identifier equal to the type is dropped
ParseResolve ==
    /\ rpc = "records" /\ rri <= Len(RawRecords(rci))
    /\ LET raw == RawRecords(rci)[rri]
           registered == Registered(prov_document, rci)
           prov_type == valid_qualified_name(registered, raw.metadata.prov_type)
           prov_id == raw.metadata.identifier
           prov_id_qualified == valid_qualified_name(registered, prov_id)
       IN /\ ~IsUnknownType(prov_document, rci, raw)
          /\ ~IsMembershipEdge(raw)
          /\ parsed' = [prov_type |-> prov_type,
                        prov_id |-> IdentifierOrNone(prov_id, prov_id_qualified, prov_type),
                        registered |-> registered]
    /\ rpc' = "resolved"
    /\ UNCHANGED <<rci, rri, prov_document, rerror>>
    /\ UNCHANGED cvars

\* serializer.add_namespaces_to_bundle: every namespace of the metadata is
\* registered on the bundle
add_namespaces_to_bundle(namespaces, metadata) == namespaces \cup metadata.namespaces

\* FORMAL_ATTRIBUTES of the record class of a type
FORMAL_ATTRIBUTES(type) ==
    IF type = PROV_DERIVATION
    THEN <<PROV_ATTR_GENERATED_ENTITY, PROV_ATTR_USED_ENTITY>>
    ELSE IF type = PROV_MENTION
         THEN <<PROV_ATTR_SPECIFIC_ENTITY, PROV_ATTR_GENERAL_ENTITY, PROV_ATTR_BUNDLE>>
         ELSE <<>>

\* serializer.create_prov_record: the record new_record(type, id, attributes)
\* adds to the bundle, attribute values decoded with the type map
create_prov_record(registered, prov_type, prov_id, attributes, type_map) ==
    LET formal == FORMAL_ATTRIBUTES(prov_type)
        other == SelectSeq(attributes,
                     LAMBDA a : \A i \in 1..Len(formal) : Str(formal[i]) # a[1])
    IN [cls |-> IF prov_type = PROV_ENTITY THEN "element" ELSE "relation",
        type |-> prov_type,
        identifier |-> valid_qualified_name(registered, prov_id),
        formal |-> [i \in 1..Len(formal) |->
                      <<formal[i],
                        valid_qualified_name(registered,
                                             DictGet(attributes, Str(formal[i])))>>],
        extra |-> [i \in 1..Len(other) |->
                      <<valid_qualified_name(registered, other[i][1]),
                        [isQName |-> <<other[i][1], "prov:QUALIFIED_NAME">> \in type_map,
                         text |-> other[i][2]]>>]]

\* mutation: the record is created before its namespaces are registered
NamespacesNotRegistered(namespaces, metadata) == namespaces

\* the namespaces of the target bundle when line 230 runs: line 229 has
\* registered those of the record's metadata
NamespacesAtCreate(namespaces, metadata) ==
    add_namespaces_to_bundle(namespaces, metadata)

\* _parse_record, lines 229-230
ParseCreate ==
    /\ rpc = "resolved"
    /\ LET raw == RawRecords(rci)[rri]
           own == IF rci = 0 THEN prov_document.namespaces
                  ELSE prov_document.bundles[rci].namespaces
           ns == NamespacesAtCreate(own, raw.metadata)
           visible == ns \cup prov_document.namespaces
           new == [rec |-> create_prov_record(visible, parsed.prov_type, parsed.prov_id,
                                              raw.attributes, raw.metadata.type_map),
                   src |-> raw.src, role |-> raw.role,
                   namespaces |-> raw.metadata.namespaces,
                   resolved_with |-> parsed.registered, created_with |-> visible]
       IN prov_document' =
            IF rci = 0
            THEN [prov_document EXCEPT !.namespaces = ns, !.records = Append(@, new)]
            ELSE [prov_document EXCEPT !.bundles[rci].namespaces = ns,
                                       !.bundles[rci].records = Append(@, new)]
    /\ rpc' = "records" /\ rri' = rri + 1 /\ parsed' = NoParsed
    /\ UNCHANGED <<rci, rerror>>
    /\ UNCHANGED cvars

\* lines 181-183: the stored bundle identifier without its prefix
StripBundlePrefix(prefixed_identifier) ==
    SubSeq(prefixed_identifier, Len(PROV_API_BUNDLE_IDENTIFIER_PREFIX) - 2 + 1,
           Len(prefixed_identifier))

\* line 184: prov_document.bundle(identifier) for the next raw bundle
OpenBundle ==
    /\ rpc = "records" /\ rri > Len(RawRecords(rci)) /\ rci < Len(raw_doc.bundles)
    /\ LET identifier == StripBundlePrefix(
                             raw_doc.bundles[rci + 1].bundle_record.metadata.identifier)
           valid_id == valid_qualified_name(prov_document.namespaces, identifier)
       IN /\ valid_id # NoneQN
          /\ prov_document' = [prov_document EXCEPT !.bundles =
                 Append(@, [identifier |-> valid_id, namespaces |-> {}, records |-> <<>>])]
    /\ rci' = rci + 1 /\ rri' = 1
    /\ UNCHANGED <<rpc, parsed, rerror>>
    /\ UNCHANGED cvars

\* line 184: ProvDocument.bundle refuses an identifier it cannot qualify
InvalidBundleIdentifier ==
    /\ rpc = "records" /\ rri > Len(RawRecords(rci)) /\ rci < Len(raw_doc.bundles)
    /\ valid_qualified_name(prov_document.namespaces,
           StripBundlePrefix(raw_doc.bundles[rci + 1].bundle_record.metadata.identifier))
         = NoneQN
    /\ rpc' = "failed" /\ rerror' = "ProvException"
    /\ UNCHANGED <<rci, rri, prov_document, parsed>>
    /\ UNCHANGED cvars

\* line 188
ReturnDocument ==
    /\ rpc = "records" /\ rri > Len(RawRecords(rci)) /\ rci >= Len(raw_doc.bundles)
    /\ rpc' = "done"
    /\ UNCHANGED <<rci, rri, prov_document, parsed, rerror>>
    /\ UNCHANGED cvars

Next ==
    \/ FormString \/ ParseError \/ SaveDocument
    \/ SaveElement \/ NodesDone
    \/ SkipMention \/ EnterRelation \/ RelationsDone
    \/ CreateUnknownNode \/ SaveRelation
    \/ SaveBundle \/ BundlesDone
    \/ SaveMembership \/ AssociationDone
    \/ SkipNonMention \/ EnterLink \/ LinkKeyError \/ LinksNextBundle
    \/ Return
    \/ GetDocument \/ ParseSkipUnknown \/ ParseSkipMembership
    \/ ParseResolve \/ ParseCreate
    \/ OpenBundle \/ InvalidBundleIdentifier \/ ReturnDocument

vars == <<cvars, rvars>>

Spec == Init /\ [][Next]_vars

(* ------------------------------- properties ---------------------------- *)
Range(f) == { f[i] : i \in DOMAIN f }

Containers == 0..Len(doc.bundles)

RelationsOf(c) == { i \in 1..Len(Container(c)) : Container(c)[i].cls = "relation" }

ElementsOf(c) == { i \in 1..Len(Container(c)) : Container(c)[i].cls = "element" }

MentionsOf(c) == { i \in RelationsOf(c) : Container(c)[i].type = PROV_MENTION }

\* the adapter calls issued for record src of the input in a given role
CallsFor(src, role) ==
    { i \in 1..Len(calls) : calls[i].src = src /\ calls[i].role = role }

\* the calls that saved a mention-link edge
MentionEdges ==
    { i \in 1..Len(calls) :
        calls[i].op = "save_relation" /\ calls[i].metadata.prov_type = PROV_MENTION }

\* ids save_bundle returned before call i
BundleIdsBefore(i) ==
    { calls[j].ret : j \in { k \in 1..(i - 1) : calls[k].op = "save_bundle" /\ calls[k].ok } }

\* a node of that identifier was saved in that container before call i
\* (a bundle is a node of its document, saved by save_bundle)
NodeSavedBefore(i, container, identifier) ==
    \E j \in 1..(i - 1) :
        /\ calls[j].ok
        /\ calls[j].op \in {"save_record", "save_bundle"}
        /\ calls[j].container = container
        /\ calls[j].metadata.identifier = identifier

\* the records rebuilt so far, of the document and of its bundles
Rebuilt ==
    Range(prov_document.records)
    \cup UNION { Range(prov_document.bundles[b].records) :
                   b \in 1..Len(prov_document.bundles) }

\* C1: round trip. The document get_document_as_prov returns for the id
\* create_document returned has the bundles of the input, by their original
\* identifiers, and in the root and in each bundle the records of the input,
\* with their type, identifier and attributes, in any order.
C1_RoundTrip ==
    rpc = "done" =>
        /\ { b.identifier : b \in Range(prov_document.bundles) }
             = { b.identifier : b \in Range(doc.bundles) }
        /\ { r.rec : r \in Range(prov_document.records) } = Range(doc.records)
        /\ \A b \in Range(doc.bundles) :
              \E pb \in Range(prov_document.bundles) :
                  /\ pb.identifier = b.identifier
                  /\ { r.rec : r \in Range(pb.records) } = Range(b.records)

\* pass 1 of bundle b is complete before call i: save_bundle, every element,
\* every relation that is no mention-link, every membership edge
Pass1Before(b, i) ==
    /\ \E j \in CallsFor(<<b, 0>>, "bundle") : j < i /\ calls[j].ok
    /\ \A e \in ElementsOf(b) :
          /\ \E j \in CallsFor(<<b, e>>, "record") : j < i /\ calls[j].ok
          /\ \E j \in CallsFor(<<b, e>>, "membership") : j < i /\ calls[j].ok
    /\ \A r \in RelationsOf(b) \ MentionsOf(b) :
          \E j \in CallsFor(<<b, r>>, "relation") : j < i /\ calls[j].ok

\* C2: pass ordering. When a mention-link edge is saved, every bundle of the
\* document has completed pass 1, and the two containers of the edge are ids
\* save_bundle returned earlier in the call.
C2_PassOrdering ==
    \A i \in MentionEdges :
        /\ \A b \in 1..Len(doc.bundles) : Pass1Before(b, i)
        /\ calls[i].container \in BundleIdsBefore(i)
        /\ calls[i].to_container \in BundleIdsBefore(i)

\* a mention-link edge between two different bundles was saved, after pass 1
\* of a bundle that has an element
C2_Witness ==
    \E i \in MentionEdges :
        /\ calls[i].ok
        /\ calls[i].container # calls[i].to_container
        /\ \E b \in 1..Len(doc.bundles) : ElementsOf(b) # {}

\* C3: nodes before edges. When save_relation is called, a node of the from
\* identifier has been saved in the from container and a node of the to
\* identifier in the to container, for every relation of the document.
C3_NodesBeforeEdges ==
    \A i \in 1..Len(calls) :
        calls[i].op = "save_relation" =>
            /\ NodeSavedBefore(i, calls[i].container, calls[i].from_identifier)
            /\ NodeSavedBefore(i, calls[i].to_container, calls[i].to_identifier)

\* the storage id of container c of the input, 0 when it has none yet
ContainerId(c) ==
    IF c = 0 THEN doc_id
    ELSE IF doc.bundles[c].identifier \in DOMAIN bundle_id_map
         THEN bundle_id_map[doc.bundles[c].identifier] ELSE 0

\* the container the "to" end of relation r of container c lives in
ToContainerId(c, r) ==
    LET rel == Container(c)[r] IN
    IF rel.type = PROV_MENTION /\ rel.formal[3][2] \in DOMAIN bundle_id_map
    THEN bundle_id_map[rel.formal[3][2]] ELSE ContainerId(c)

\* exactly one placeholder was saved for that end of relation <<c, r>>, of
\* type prov:Unknown, in the given container, under an identifier no other
\* saved node has, before the edge, which uses it as that end
OnePlaceholder(c, r, role, container) ==
    /\ Cardinality(CallsFor(<<c, r>>, role)) = 1
    /\ \A u \in CallsFor(<<c, r>>, role) :
          /\ calls[u].op = "save_record" /\ calls[u].ok
          /\ calls[u].metadata.prov_type = QN("prov", "Unknown")
          /\ calls[u].container = container
          /\ \A j \in 1..Len(calls) :
                (j # u /\ calls[j].op = "save_record")
                    => calls[j].metadata.identifier # calls[u].metadata.identifier
          /\ \E e \in CallsFor(<<c, r>>, "relation") :
                /\ u < e
                /\ calls[e].op = "save_relation"
                /\ IF role = "unknown_from"
                   THEN calls[e].from_identifier = calls[u].metadata.identifier
                   ELSE calls[e].to_identifier = calls[u].metadata.identifier

\* C4: unknown endpoint synthesis. Once create_document has returned, every
\* relation of the document with an absent "to" (or "from") end has exactly one
\* placeholder node of type prov:Unknown, freshly named, in the container of
\* that end, saved before the edge that uses it; and no placeholder is a record
\* of the document get_document_as_prov rebuilds.
C4_UnknownEndpoint ==
    /\ pc = "done" =>
          \A c \in Containers : \A r \in RelationsOf(c) :
              /\ Container(c)[r].formal[1][2] = NoneQN
                    => OnePlaceholder(c, r, "unknown_from", ContainerId(c))
              /\ Container(c)[r].formal[2][2] = NoneQN
                    => OnePlaceholder(c, r, "unknown_to", ToContainerId(c, r))
    /\ \A x \in Rebuilt :
          /\ x.role \notin {"unknown_from", "unknown_to"}
          /\ x.rec.type # QN("prov", "Unknown")

\* C5: bundle addressability. Once create_document has returned, every
\* mention-link of the document that points at a bundle of the document, at
\* top level or inside a bundle, has exactly one save_relation call, issued
\* after save_bundle returned the ids of the bundles it spans.
C5_MentionSaved ==
    pc = "done" =>
        \A c \in Containers : \A m \in MentionsOf(c) :
            Container(c)[m].formal[3][2] \in { b.identifier : b \in Range(doc.bundles) }
            => /\ Cardinality(CallsFor(<<c, m>>, "relation")) = 1
               /\ \A e \in CallsFor(<<c, m>>, "relation") :
                     /\ calls[e].op = "save_relation"
                     /\ calls[e].to_container \in BundleIdsBefore(e)
                     /\ c # 0 => calls[e].container \in BundleIdsBefore(e)

\* C6: failure aborts materialization. A failed adapter call is the last call
\* create_document makes; create_document has then ended without a document
\* id, raising the error the adapter raised; nothing is read back or deleted.
C6_FailureAborts ==
    \A i \in 1..Len(calls) :
        ~calls[i].ok =>
            /\ i = Len(calls)
            /\ pc = "failed"
            /\ result = 0
            /\ error = calls[i].raised
            /\ rpc = "idle"

\* a save_relation failed after a document, a record and more were saved
C6_Witness ==
    /\ pc = "failed"
    /\ Len(calls) > 2
    /\ calls[Len(calls)].op = "save_relation"
    /\ ~calls[Len(calls)].ok
    /\ \A i \in 1..(Len(calls) - 1) : calls[i].ok

\* the errors of the typed taxonomy
TypedErrors ==
    {"InvalidArgumentTypeException", "InvalidProvRecordException"} \cup AdapterErrors

\* every record and every relation of the input has its save call
AllSaved ==
    \A c \in Containers :
        /\ \A e \in ElementsOf(c) :
              \E j \in CallsFor(<<c, e>>, "record") : calls[j].ok
        /\ \A r \in RelationsOf(c) :
              \E j \in CallsFor(<<c, r>>, "relation") : calls[j].ok

\* C7: typed outcome. create_document either returns the document id, having
\* saved every record and relation, or fails with one error of the taxonomy.
C7_TypedOutcome ==
    /\ pc = "done" => (result = doc_id /\ result # 0 /\ error = "" /\ AllSaved)
    /\ pc = "failed" => (result = 0 /\ error \in TypedErrors)

\* a mention-link inside a bundle names a bundle the document does not have,
\* and create_document has ended with a KeyError
C7_KeyErrorReached ==
    /\ pc = "failed" /\ error = "KeyError"
    /\ \E c \in 1..Len(doc.bundles) : \E m \in MentionsOf(c) :
          Container(c)[m].formal[3][2] \notin { b.identifier : b \in Range(doc.bundles) }

\* C8 as stated: in the rebuilt document no record has an attribute equal to
\* "belongsToBundle", and no membership edge is a record of it.
C8_NoAttributeEqual ==
    \A x \in Rebuilt :
        /\ x.role # "membership"
        /\ \A i \in 1..Len(x.rec.extra) : x.rec.extra[i][2].text # "belongsToBundle"

\* C8 amended: in the rebuilt document no record has a prov:label equal to
\* "belongsToBundle", and no membership edge create_document saved is a
\* record of it, in the root or in a bundle.
C8_NoMembershipEdge ==
    \A x \in Rebuilt :
        /\ x.role # "membership"
        /\ \A i \in 1..Len(x.rec.extra) :
              x.rec.extra[i][1] = PROV_LABEL => x.rec.extra[i][2].text # "belongsToBundle"

\* a document whose bundle has a saved membership edge was rebuilt, the
\* element of the bundle included
C8_Witness ==
    /\ rpc = "done"
    /\ \E i \in 1..Len(calls) : calls[i].role = "membership" /\ calls[i].ok
    /\ \E b \in 1..Len(prov_document.bundles) : prov_document.bundles[b].records # <<>>

\* the record of the input a call or a rebuilt record was made for
Source(src) == Container(src[1])[src[2]]

\* C9: anonymous-record convention. A relation without identifier is saved
\* with its type as identifier, and rebuilt without identifier and with its
\* type.
C9_Anonymous ==
    /\ \A i \in 1..Len(calls) :
          (calls[i].role = "relation" /\ Source(calls[i].src).identifier = NoneQN)
              => /\ calls[i].metadata.identifier = Source(calls[i].src).type
                 /\ calls[i].metadata.prov_type = Source(calls[i].src).type
    /\ \A x \in Rebuilt :
          (x.role = "relation" /\ Source(x.src).identifier = NoneQN)
              => /\ x.rec.identifier = NoneQN
                 /\ x.rec.type = Source(x.src).type

\* an anonymous relation of the input was rebuilt
C9_Witness ==
    /\ rpc = "done"
    /\ \E x \in Rebuilt : x.role = "relation" /\ Source(x.src).identifier = NoneQN

\* C10 as stated: when _parse_record has resolved the type and identifier of
\* a stored record, all namespaces of the record's metadata are registered on
\* the target bundle.
C10_RegisteredBeforeResolve ==
    rpc = "resolved" =>
        RawRecords(rci)[rri].metadata.namespaces \subseteq parsed.registered

\* C10 amended: all namespaces of a stored record's metadata are registered
\* on the target bundle when the record is created in it; its type and
\* identifier were resolved before that, against the namespaces registered
\* until then.
C10_RegisteredBeforeCreate ==
    \A x \in Rebuilt :
        /\ x.namespaces \subseteq x.created_with
        /\ x.created_with = x.resolved_with \cup x.namespaces

\* a record whose namespace was not registered when it was resolved has been
\* created
C10_Witness ==
    \E x \in Rebuilt : ~(x.namespaces \subseteq x.resolved_with)

\* the calls that saved a record or a relation of the input
RecordCalls ==
    { i \in 1..Len(calls) : calls[i].role \in {"record", "relation"} }

\* an attribute key occurs more than once on the record
RepeatedKey(rec) ==
    \E i, j \in 1..Len(RecordAttributes(rec)) :
        i # j /\ RecordAttributes(rec)[i][1] = RecordAttributes(rec)[j][1]

\* C11: attribute preservation in metadata extraction. The attributes passed
\* to save_record / save_relation for a record contain every (key, value)
\* pair of the record unchanged, all values of a repeated key included.
C11_AttributesPreserved ==
    \A i \in RecordCalls :
        Range(RecordAttributes(Source(calls[i].src))) \subseteq Range(calls[i].attributes)

\* what the extraction does keep: every pair it passes on is a pair of the
\* record, every key of the record is passed on once, with its last value
C11_LastValuePerKey ==
    \A i \in RecordCalls :
        LET given == RecordAttributes(Source(calls[i].src))
            passed == calls[i].attributes
        IN /\ Range(passed) \subseteq Range(given)
           /\ \A k \in 1..Len(given) :
                 \E p \in 1..Len(passed) :
                    /\ passed[p][1] = given[k][1]
                    /\ \A q \in 1..Len(passed) : passed[q][1] = given[k][1] => q = p
                    /\ (\A l \in (k + 1)..Len(given) : given[l][1] # given[k][1])
                          => passed[p] = given[k]

\* a record with two values of one attribute key was saved
C11_Witness ==
    \E i \in RecordCalls : calls[i].ok /\ RepeatedKey(Source(calls[i].src))

====
